---- MODULE Spec2Model ----
(***************************************************************************)
(* Inventory backend of francisganapin/Product: the `products` table, the  *)
(* long-lived SQLAlchemy session of InventoryService, the service methods  *)
(* and the Flask routes that expose them.                                  *)
(*                                                                         *)
(* The repository carries several versions of services/inventory_service.py*)
(* Each behaviour of the model runs one of them, fixed at start-up:        *)
(*   "step3"    src/unnamed/part_005:294-405                               *)
(*   "minimal"  src/unnamed/part_005:669-703                               *)
(*   "guarded"  src/components/CreatePOModal.tsx:438-564                   *)
(*   "complete" src/components/ReportDamagedModal.tsx:557-651              *)
(*                                                                         *)
(* Values are integer codes.  Ids 1 and 2 stand for two product ids, text  *)
(* columns take codes from Texts, None is Python's None.  The eight        *)
(* non-key columns of the nine-column model are all handled alike by every *)
(* method; `name` and `quantity` stand for them.                           *)
(*                                                                         *)
(* Nine specifications share the module:                                   *)
(*   Spec            the backend serving one request after the other       *)
(*   ClientSpec      the App container of the browser against the backend  *)
(*   ConcurrentSpec  POST requests served by concurrent threads            *)
(*   DashboardSpec   the derived metrics of Dashboard and ProductCard      *)
(*   ExpirySpec      the expiring-soon metric as time passes               *)
(*   OrdersSpec      the lists kept in component state and the PO modals   *)
(*   QuerySpec       the paginated get_items of the service                *)
(*   StripSpec       the page strip of the Pagination component            *)
(*   PagedSpec       the container that loads one page at a time           *)
(***************************************************************************)
EXTENDS Integers, Sequences, FiniteSets, TLC

VARIABLES variant, products, session, last,
          app, clientProducts, inflight, deletingId, history, step,
          workers, sessionNew, sessionTxn,
          view, clock, expiry,
          purchaseOrders, reports, poModal, edit,
          query, pager, strip

\* the backend: service version, products table, session, request being served
serverVars == <<variant, products, session, last>>

\* the browser: App version, its `products` state, the fetches under way,
\* its `deletingId` state, what has happened since start-up, the last step
clientVars == <<app, clientProducts, inflight, deletingId, history, step>>

\* concurrent requests: the server threads, the objects pending in the
\* shared session, the rows its open transaction has written
threadVars == <<workers, sessionNew, sessionTxn>>

\* what the Dashboard and the product cards have rendered, and the time
\* (new Date().getTime()) they read
\* the PurchaseOrders and DamagedReturns components, the create modal and
\* the last change made to one of the local lists
orderVars == <<purchaseOrders, reports, poModal, edit>>

\* a paginated list query, the paginated container and the page strip
pageVars == <<query, pager, strip>>

viewVars == <<view, clock, expiry, orderVars, pageVars>>

vars == <<serverVars, clientVars, threadVars, viewVars>>

\* largest quantity / reorder level a request carries
MaxQty == 2

None == -1

Variants == {"step3", "minimal", "guarded", "complete"}

Ids == {1, 2}
Texts == {1, 2}
Batches == {1}
Quantities == 1..MaxQty

BaseFields == {"name", "quantity"}
AllFields == {"id"} \cup BaseFields \cup {"reorderLevel", "batchNumber"}

FieldValues(f) ==
    CASE f = "id" -> Ids
      [] f = "name" -> Texts
      [] f = "quantity" -> Quantities
      [] f = "reorderLevel" -> Quantities
      [] f = "batchNumber" -> Batches

\* JSON bodies with exactly the keys `keys`
Payloads(keys) == {d \in [keys -> Ids \cup Texts \cup Quantities \cup Batches] :
                      \A k \in keys : d[k] \in FieldValues(k)}

EmptyData == [k \in {} |-> None]

\* class Product(Base): the mapped columns
Columns(v) == IF v = "complete" THEN AllFields ELSE {"id"} \cup BaseFields

\* the keys the service copies into the dictionaries it returns
DictFields(v) == IF v = "complete" THEN AllFields ELSE {"id"} \cup BaseFields

\* data.get(key)
DictGet(data, k) == IF k \in DOMAIN data THEN data[k] ELSE None

\* _product_to_dict / the inline dictionary literals
ToDict(v, row) == [k \in DictFields(v) |-> row[k]]

\* Product(**data) resp. Product(id=data.get('id'), ...)
NewProduct(v, data) == [c \in Columns(v) |-> DictGet(data, c)]

\* Product(**data) raises TypeError on a key that is no mapped attribute
ConstructorRaises(v, data) == v # "guarded" /\ ~(DOMAIN data \subseteq Columns(v))

\* session.query(Product).filter(Product.id == item_id).first(): position or 0
RowIndex(tbl, id) ==
    IF \E i \in 1..Len(tbl) : tbl[i]["id"] = id
    THEN CHOOSE i \in 1..Len(tbl) : tbl[i]["id"] = id /\ \A j \in 1..(i-1) : tbl[j]["id"] # id
    ELSE 0

RemoveAt(s, i) == [j \in 1..(Len(s) - 1) |-> IF j < i THEN s[j] ELSE s[j + 1]]


(***************************************************************************)
(* The session.  A flush that fails inside session.commit() rolls the      *)
(* database transaction back and leaves the Session inactive: until        *)
(* session.rollback() is called every further query or commit on it raises *)
(* PendingRollbackError.                                                   *)
(***************************************************************************)

Result(exc, kind, message, error, item, items) ==
    [exc |-> exc, kind |-> kind, message |-> message, error |-> error,
     item |-> item, items |-> items]

\* a dictionary {'message': ..., ['error': ...], ['item': ...]}
Dict(message, error, item) == Result("none", "dict", message, error, item, <<>>)

\* an exception leaving the method
Raise(e) == Result(e, "raise", "", "absent", <<>>, <<>>)

Outcome(tbl, sess, res) == [products |-> tbl, session |-> sess, res |-> res]

FlushError(fault) == IF fault THEN "OperationalError" ELSE "IntegrityError"

InsertFailsNoKey(tbl, row, fault) == row["id"] = None \/ fault

\* INSERT at session.commit(): id is the primary key (NOT NULL, UNIQUE);
\* fault is the database refusing the write ("database is locked")
InsertFails(tbl, row, fault) ==
    \/ row["id"] = None
    \/ \E i \in 1..Len(tbl) : tbl[i]["id"] = row["id"]
    \/ fault

UpdateFailsNoKey(tbl, i, row, fault) == row # tbl[i] /\ fault

\* UPDATE at session.commit(): emitted only when an attribute changed
UpdateFails(tbl, i, row, fault) ==
    /\ row # tbl[i]
    /\ \/ fault
       \/ \E j \in 1..Len(tbl) : j # i /\ tbl[j]["id"] = row["id"]

\* DELETE at session.commit()
DeleteFails(fault) == fault

\* the keys of the payload that update_item assigns
AssignedKeys(v, data) ==
    CASE v = "guarded" -> (DOMAIN data \cap Columns(v)) \ {"id"}
      [] v = "minimal" -> DOMAIN data
      [] OTHER -> DOMAIN data \cap Columns(v)

SetAttrsReplace(v, row, data) ==
    [c \in DOMAIN row |-> IF c \in AssignedKeys(v, data) THEN data[c]
                          ELSE IF c = "id" THEN row[c] ELSE None]

\* for key, value in data.items(): setattr(product, key, value)
\* (an attribute that is no column is not stored)
SetAttrs(v, row, data) ==
    [c \in DOMAIN row |-> IF c \in AssignedKeys(v, data) THEN data[c] ELSE row[c]]

\* the 'item' a successful add_item returns
AddedItem(v, data, product) ==
    IF v \in {"minimal", "complete"} THEN data ELSE ToDict(v, product)

add_item(v, tbl, sess, data, fault) ==
    LET product == NewProduct(v, data) IN
    IF ConstructorRaises(v, data) THEN Outcome(tbl, sess, Raise("TypeError"))
    ELSE IF sess = "inactive" THEN
        IF v = "guarded"
        THEN Outcome(tbl, "active", Dict("Error adding item", "absent", <<>>))
        ELSE Outcome(tbl, sess, Raise("PendingRollbackError"))
    ELSE IF InsertFails(tbl, product, fault) THEN
        IF v = "guarded"
        THEN Outcome(tbl, "active", Dict("Error adding item", "absent", <<>>))
        ELSE Outcome(tbl, "inactive", Raise(FlushError(fault)))
    ELSE Outcome(Append(tbl, product), sess,
                 Dict("Item added", "absent", <<AddedItem(v, data, product)>>))

get_items(v, tbl, sess) ==
    IF sess = "inactive" THEN
        IF v = "guarded"
        THEN Outcome(tbl, sess, Dict("", "text", <<>>))
        ELSE Outcome(tbl, sess, Raise("PendingRollbackError"))
    ELSE IF v = "minimal"
    THEN Outcome(tbl, sess, Result("none", "objects", "", "absent", <<>>, tbl))
    ELSE Outcome(tbl, sess, Result("none", "list", "", "absent", <<>>,
                                   [i \in 1..Len(tbl) |-> ToDict(v, tbl[i])]))

get_item(v, tbl, sess, id) ==
    LET i == RowIndex(tbl, id) IN
    IF sess = "inactive" THEN
        IF v = "guarded"
        THEN Outcome(tbl, sess, Dict("", "text", <<>>))
        ELSE Outcome(tbl, sess, Raise("PendingRollbackError"))
    ELSE IF i = 0
    THEN Outcome(tbl, sess, Result("none", "None", "", "absent", <<>>, <<>>))
    ELSE IF v = "minimal"
    THEN Outcome(tbl, sess, Result("none", "object", "", "absent", <<tbl[i]>>, <<>>))
    ELSE Outcome(tbl, sess, Result("none", "record", "", "absent", <<ToDict(v, tbl[i])>>, <<>>))

\* what update_item answers for a missing row
UpdateNotFound(v) ==
    IF v = "complete" THEN Dict("item not found", "true", <<>>)
    ELSE Dict("Item not found", "absent", <<>>)

\* what update_item answers after a successful commit
UpdateDone(v, data, row) ==
    CASE v = "minimal" -> Dict("Item updated", "absent", <<data>>)
      [] v = "complete" -> Dict("item updated", "false", <<ToDict(v, row)>>)
      [] OTHER -> Dict("Item updated", "absent", <<ToDict(v, row)>>)

update_item(v, tbl, sess, id, data, fault) ==
    LET i == RowIndex(tbl, id) IN
    IF sess = "inactive" THEN
        IF v = "guarded"
        THEN Outcome(tbl, "active", Dict("Error updating item", "absent", <<>>))
        ELSE Outcome(tbl, sess, Raise("PendingRollbackError"))
    ELSE IF i = 0 THEN Outcome(tbl, sess, UpdateNotFound(v))
    ELSE LET row == SetAttrs(v, tbl[i], data) IN
         IF UpdateFails(tbl, i, row, fault) THEN
             IF v = "guarded"
             THEN Outcome(tbl, "active", Dict("Error updating item", "absent", <<>>))
             ELSE Outcome(tbl, "inactive", Raise(FlushError(fault)))
         ELSE Outcome([tbl EXCEPT ![i] = row], sess, UpdateDone(v, data, row))

\* what delete_item answers for a missing row
DeleteNotFound(v) ==
    IF v = "complete" THEN Dict("Item not found", "true", <<>>)
    ELSE Dict("Item not found", "absent", <<>>)

\* what delete_item answers after a successful commit
DeleteDone(v) ==
    IF v = "complete" THEN Dict("Item deleted successfully", "false", <<>>)
    ELSE Dict("Item deleted", "absent", <<>>)

\* what delete_item answers from its except branch (after session.rollback())
DeleteError(v) ==
    IF v = "complete" THEN Dict("Error deleting item", "true", <<>>)
    ELSE Dict("Error deleting item", "absent", <<>>)

delete_item(v, tbl, sess, id, fault) ==
    LET i == RowIndex(tbl, id) IN
    IF sess = "inactive" THEN
        IF v = "guarded"
        THEN Outcome(tbl, "active", DeleteError(v))
        ELSE Outcome(tbl, sess, Raise("PendingRollbackError"))
    ELSE IF i = 0 THEN Outcome(tbl, sess, DeleteNotFound(v))
    ELSE IF DeleteFails(fault) THEN
        IF v \in {"guarded", "complete"}
        THEN Outcome(tbl, "active", DeleteError(v))
        ELSE Outcome(tbl, "inactive", Raise(FlushError(fault)))
    ELSE Outcome(RemoveAt(tbl, i), sess, DeleteDone(v))


(***************************************************************************)
(* The routes of api/inventory_routes.py.  An exception that leaves a view *)
(* function, jsonify() refusing its argument included, is answered by      *)
(* Flask with status 500.                                                  *)
(***************************************************************************)

Response(status, body) == [status |-> status, body |-> body]

\* @inventory_bp.route("", methods=["POST"])
route_add_item(v, res) ==
    IF res.exc # "none" THEN Response(500, "exception")
    ELSE Response(201, "message")

\* @inventory_bp.route("", methods=['GET'])
route_get_items(v, res) ==
    IF res.exc # "none" THEN Response(500, "exception")
    ELSE IF res.kind = "objects" /\ Len(res.items) > 0 THEN Response(500, "exception")
    ELSE IF res.kind = "dict" THEN Response(200, "error")
    ELSE Response(200, "array")

\* @inventory_bp.route("/<item_id>", methods=['GET']); the argument of
\* jsonify in the not-found branch is a set literal, which is not serializable
route_get_item(v, res) ==
    IF res.exc # "none" THEN Response(500, "exception")
    ELSE IF res.kind = "None" THEN Response(500, "exception")
    ELSE IF res.kind = "object" THEN Response(500, "exception")
    ELSE IF res.kind = "dict" THEN Response(200, "error")
    ELSE Response(200, "object")

\* @inventory_bp.route("/<item_id>", methods=['PUT'])
route_update_item(v, res) ==
    IF res.exc # "none" THEN Response(500, "exception")
    ELSE IF res.message = "Item not found" THEN Response(404, "message")
    ELSE Response(200, "message")

\* @inventory_bp.route("/<item_id>", methods=['DELETE'])
route_delete_item(v, res) ==
    IF res.exc # "none" THEN Response(500, "exception")
    ELSE IF v = "complete" /\ res.error = "true" THEN
        IF res.message = "Item not found" THEN Response(404, "error")
        ELSE Response(500, "error")
    ELSE Response(200, "message")

Served(op, id, data, fault, out, resp) ==
    [op |-> op, id |-> id, data |-> data, fault |-> fault,
     prev |-> products, prevSession |-> session,
     res |-> out.res, status |-> resp.status, body |-> resp.body]

\* no request is being served
Idle ==
    [op |-> "idle", id |-> None, data |-> EmptyData, fault |-> FALSE,
     prev |-> <<>>, prevSession |-> "active",
     res |-> Result("none", "None", "", "absent", <<>>, <<>>),
     status |-> 0, body |-> "none"]

(***************************************************************************)
(* The client data container: the App component and its `products` state.  *)
(* The repository carries several versions of it:                          *)
(*   "local"       src/App.tsx:59-87                                       *)
(*   "fetchDelete" src/Documentation/ui_frontend_documentation.md:1141-1194*)
(*   "deletingId"  src/components/DamagedReturns.tsx:418-474               *)
(*   "paginated"   src/unnamed/part_006:592-676                            *)
(*   "fetchUpdate" src/App.tsx with the handleUpdateProduct of             *)
(*                 src/Documentation/update_product_issue.md:255-285       *)
(*   "modalUpdate" src/App.tsx with the EditProductModal.handleSubmit of   *)
(*                 src/unnamed/part_007:163-211                            *)
(* A handler that awaits a fetch continues, when the fetch settles, with   *)
(* the `products` of the render in which it was called (its closure).      *)
(***************************************************************************)

\* form submissions and confirmed deletes the user makes in one visit
MaxUserActions == 2

\* a fetch(): op is the endpoint, data the JSON body, snapshot the `products`
\* the calling handler closed over
Request(op, id, data, snapshot) ==
    [op |-> op, id |-> id, data |-> data, snapshot |-> snapshot,
     phase |-> "sent", status |-> 0, body |-> "none", items |-> <<>>]

NoHistory == [loaded |-> FALSE, failed |-> FALSE, early |-> FALSE, actions |-> 0]

NoStep ==
    [act |-> "none", op |-> "none", id |-> None, alert |-> FALSE,
     prev |-> <<>>, phase |-> "none", status |-> 0]

\* no browser is attached
NoClient ==
    /\ app = "none"
    /\ clientProducts = <<>>
    /\ inflight = <<>>
    /\ deletingId = None
    /\ history = NoHistory
    /\ step = NoStep

\* one request at a time: no second server thread
NoThreads ==
    /\ workers = <<>>
    /\ sessionNew = <<>>
    /\ sessionTxn = <<>>

\* nothing rendered yet
NoExpiry ==
    [dashboard |-> FALSE, dashboardAt |-> 0, expiringSoon |-> <<>>,
     card |-> FALSE, cardAt |-> 0, isExpiringSoon |-> FALSE]

\* the purchase-order and damaged-report pages are not mounted
NoOrders ==
    /\ purchaseOrders = <<>>
    /\ reports = <<>>
    /\ poModal = [open |-> FALSE, items |-> <<>>]
    /\ edit = [list |-> "none", act |-> "none", arg |-> <<>>, prev |-> <<>>]

NoPager ==
    [table |-> <<>>, products |-> <<>>, pagination |-> <<>>, currentPage |-> 1,
     itemsPerPage |-> 0, isLoading |-> FALSE, pending |-> <<>>, act |-> "none"]

\* no paginated request, container or page strip
NoPages ==
    /\ query = <<>>
    /\ pager = NoPager
    /\ strip = <<>>

NoView ==
    /\ view = [dashboard |-> FALSE, inventory |-> FALSE, lowStockItems |-> <<>>, cards |-> <<>>]
    /\ clock = 0
    /\ expiry = NoExpiry
    /\ NoOrders
    /\ NoPages

Init ==
    /\ variant \in Variants
    /\ products = <<>>
    /\ session = "active"
    /\ last = Idle
    /\ NoClient
    /\ NoThreads
    /\ NoView

\* POST /api/items with a body of all fields, of the base fields, or of a
\* name only
PostItem ==
    /\ last.op = "idle"
    /\ \E data \in Payloads(AllFields) \cup Payloads({"id"} \cup BaseFields)
                      \cup Payloads({"name"}),
          fault \in BOOLEAN :
        LET out == add_item(variant, products, session, data, fault) IN
        /\ products' = out.products
        /\ session' = out.session
        /\ last' = Served("add", DictGet(data, "id"), data, fault, out,
                          route_add_item(variant, out.res))
    /\ UNCHANGED <<variant, clientVars, threadVars, viewVars>>

GetItems ==
    /\ last.op = "idle"
    /\ LET out == get_items(variant, products, session) IN
        /\ products' = out.products
        /\ session' = out.session
        /\ last' = Served("list", None, EmptyData, FALSE, out,
                          route_get_items(variant, out.res))
    /\ UNCHANGED <<variant, clientVars, threadVars, viewVars>>

GetItem ==
    /\ last.op = "idle"
    /\ \E id \in Ids :
        LET out == get_item(variant, products, session, id) IN
        /\ products' = out.products
        /\ session' = out.session
        /\ last' = Served("get", id, EmptyData, FALSE, out,
                          route_get_item(variant, out.res))
    /\ UNCHANGED <<variant, clientVars, threadVars, viewVars>>

\* PUT /api/items/<item_id> with a partial or a full body
PutItem ==
    /\ last.op = "idle"
    /\ \E id \in Ids,
          data \in Payloads({"quantity"}) \cup Payloads({"quantity", "reorderLevel"})
                      \cup Payloads({"id", "name"}) \cup Payloads(AllFields),
          fault \in BOOLEAN :
        LET out == update_item(variant, products, session, id, data, fault) IN
        /\ products' = out.products
        /\ session' = out.session
        /\ last' = Served("update", id, data, fault, out,
                          route_update_item(variant, out.res))
    /\ UNCHANGED <<variant, clientVars, threadVars, viewVars>>

DeleteItem ==
    /\ last.op = "idle"
    /\ \E id \in Ids, fault \in BOOLEAN :
        LET out == delete_item(variant, products, session, id, fault) IN
        /\ products' = out.products
        /\ session' = out.session
        /\ last' = Served("delete", id, EmptyData, fault, out,
                          route_delete_item(variant, out.res))
    /\ UNCHANGED <<variant, clientVars, threadVars, viewVars>>

\* the response has gone out; the server takes the next request
Deliver ==
    /\ last.op # "idle"
    /\ last' = Idle
    /\ UNCHANGED <<variant, products, session, clientVars, threadVars, viewVars>>

Next == PostItem \/ GetItems \/ GetItem \/ PutItem \/ DeleteItem \/ Deliver

Spec == Init /\ [][Next]_vars

(***************************************************************************)
(* The browser and the backend together.  The table starts with the rows   *)
(* of earlier sessions; the mount effect has issued the list fetch.        *)
(***************************************************************************)

\* the body of an earlier POST /api/items for id
SeedData(id) == [k \in {"id"} \cup BaseFields |-> IF k = "id" THEN id ELSE 1]

SeedTable(v, tbl, id) == add_item(v, tbl, "active", SeedData(id), FALSE).products

StoredTables(v) ==
    {<<>>, SeedTable(v, <<>>, 1), SeedTable(v, SeedTable(v, <<>>, 1), 2)}

\* the Product fields the container's handlers are followed on; they treat
\* every field but id alike
ClientFields == {"id"} \cup BaseFields

\* a JSON object read as a Product: a missing key reads as undefined
ClientRecord(d) == [k \in ClientFields |-> DictGet(d, k)]

ClientList(items) == [i \in 1..Len(items) |-> ClientRecord(items[i])]

\* JSON.stringify(product): undefined properties are left out
JsonOf(p) == [k \in {f \in DOMAIN p : p[f] # None} |-> p[k]]

IdsOf(list) == {list[i]["id"] : i \in 1..Len(list)}

\* products.filter(p => p.id !== id)
FilterOut(list, id) == SelectSeq(list, LAMBDA p : p["id"] # id)

ReplaceByIdOrAppend(list, u) ==
    IF u["id"] \in {list[i]["id"] : i \in 1..Len(list)}
    THEN [i \in 1..Len(list) |-> IF list[i]["id"] = u["id"] THEN u ELSE list[i]]
    ELSE Append(list, u)

\* products.map(p => p.id === updatedProduct.id ? updatedProduct : p)
ReplaceById(list, u) ==
    [i \in 1..Len(list) |-> IF list[i]["id"] = u["id"] THEN u ELSE list[i]]

\* what the AddProductModal form submits (Omit<Product, 'id'>)
NewForms ==
    {[k \in ClientFields \ {"id"} |-> IF k = "name" THEN n ELSE 1] : n \in Texts}

\* what the EditProductModal form submits for product p
EditedProducts(p) == {[p EXCEPT !["name"] = n] : n \in Texts \ {p["name"]}}

\* response.ok
ResponseOk(status) == status >= 200 /\ status <= 299

\* response.json() resolves: the body is JSON, not Flask's HTML error page
JsonBody(body) == body # "exception"

DeleteViaBackend(a) == a \in {"fetchDelete", "deletingId", "paginated"}

Effect(list, alert, reload) == [list |-> list, alert |-> alert, reload |-> reload]

\* the continuation of the list fetch: .then(res => res.json())
\* .then(data => setProducts(data)).catch(console.error), resp. loadProducts
resolveList(a, req, cur) ==
    IF /\ req.phase = "answered"
       /\ (IF a = "paginated" THEN ResponseOk(req.status) ELSE JsonBody(req.body))
       /\ req.body = "array"
    THEN Effect(ClientList(req.items), FALSE, FALSE)
    ELSE Effect(cur, FALSE, FALSE)

\* the DELETE was answered and the handler takes its response.ok branch
DeleteConfirmed(a, req) ==
    /\ req.phase = "answered"
    /\ ResponseOk(req.status)
    /\ (a = "fetchDelete" => JsonBody(req.body))

handleDeleteProductOptimistic(a, req, cur) ==
    IF a = "paginated" THEN Effect(cur, ~DeleteConfirmed(a, req), DeleteConfirmed(a, req))
    ELSE Effect(FilterOut(req.snapshot, req.id), ~DeleteConfirmed(a, req), FALSE)

\* handleDeleteProduct after `await fetch(...)`
handleDeleteProduct(a, req, cur) ==
    IF DeleteConfirmed(a, req)
    THEN IF a = "paginated" THEN Effect(cur, FALSE, TRUE)
         ELSE Effect(FilterOut(req.snapshot, req.id), FALSE, FALSE)
    ELSE Effect(cur, TRUE, FALSE)

\* handleUpdateProduct / EditProductModal.handleSubmit after `await fetch(...)`
handleUpdateProduct(a, req, cur) ==
    IF req.phase = "answered" /\ ResponseOk(req.status)
    THEN Effect(ReplaceById(req.snapshot, req.data[1]), FALSE, FALSE)
    ELSE Effect(cur, TRUE, a = "fetchUpdate")

Settled(a, req, cur) ==
    CASE req.op = "list" -> resolveList(a, req, cur)
      [] req.op = "delete" -> handleDeleteProduct(a, req, cur)
      [] req.op = "update" -> handleUpdateProduct(a, req, cur)

RequestFailed(req) == req.phase = "failed" \/ ~ResponseOk(req.status)

ClientStep(act, op, id, alert, phase, status) ==
    [act |-> act, op |-> op, id |-> id, alert |-> alert,
     prev |-> clientProducts, phase |-> phase, status |-> status]

\* one more user action; it is early when the first list is not loaded yet
Mutated ==
    [history EXCEPT !.early = history.early \/ ~history.loaded,
                    !.actions = history.actions + 1]

ClientInit ==
    /\ variant \in Variants
    /\ products \in StoredTables(variant)
    /\ session = "active"
    /\ last = Idle
    /\ app \in {"local", "fetchDelete", "deletingId", "paginated", "fetchUpdate", "modalUpdate"}
    /\ clientProducts = <<>>
    /\ inflight = <<Request("list", None, <<>>, <<>>)>>
    /\ deletingId = None
    /\ history = NoHistory
    /\ step = [NoStep EXCEPT !.act = "mount", !.op = "list"]
    /\ NoThreads
    /\ NoView

\* the user submits the AddProductModal form
HandleAddProduct ==
    /\ history.actions < MaxUserActions
    /\ \E form \in NewForms, now \in Ids \ IdsOf(clientProducts) :
        LET newProduct == [k \in ClientFields |-> IF k = "id" THEN now ELSE form[k]] IN
        /\ clientProducts' = Append(clientProducts, newProduct)
        /\ inflight' = IF app = "paginated"
                       THEN Append(inflight, Request("list", None, <<>>, <<>>))
                       ELSE inflight
        /\ step' = ClientStep("add", "create", now, FALSE, "none", 0)
    /\ history' = Mutated
    /\ UNCHANGED <<serverVars, app, deletingId, threadVars, viewVars>>

HandleDeleteProductUnguarded ==
    /\ history.actions < MaxUserActions
    /\ \E i \in 1..Len(clientProducts) :
        LET id == clientProducts[i]["id"] IN
        IF DeleteViaBackend(app)
        THEN IF FALSE
             THEN /\ step' = ClientStep("guarded", "none", id, FALSE, "none", 0)
                  /\ history' = [history EXCEPT !.actions = history.actions + 1]
                  /\ UNCHANGED <<clientProducts, inflight, deletingId>>
             ELSE /\ inflight' = Append(inflight, Request("delete", id, <<>>, clientProducts))
                  /\ deletingId' = IF app = "deletingId" THEN id ELSE deletingId
                  /\ step' = ClientStep("delete", "delete", id, FALSE, "sent", 0)
                  /\ history' = Mutated
                  /\ UNCHANGED clientProducts
        ELSE /\ clientProducts' = FilterOut(clientProducts, id)
             /\ step' = ClientStep("delete", "delete", id, FALSE, "none", 0)
             /\ history' = Mutated
             /\ UNCHANGED <<inflight, deletingId>>
    /\ UNCHANGED <<serverVars, app, threadVars, viewVars>>

\* the user confirms the delete of a product card; with `if (deletingId)
\* return;` the handler returns before it sends anything
HandleDeleteProduct ==
    /\ history.actions < MaxUserActions
    /\ \E i \in 1..Len(clientProducts) :
        LET id == clientProducts[i]["id"] IN
        IF DeleteViaBackend(app)
        THEN IF app = "deletingId" /\ deletingId # None
             THEN /\ step' = ClientStep("guarded", "none", id, FALSE, "none", 0)
                  /\ history' = [history EXCEPT !.actions = history.actions + 1]
                  /\ UNCHANGED <<clientProducts, inflight, deletingId>>
             ELSE /\ inflight' = Append(inflight, Request("delete", id, <<>>, clientProducts))
                  /\ deletingId' = IF app = "deletingId" THEN id ELSE deletingId
                  /\ step' = ClientStep("delete", "delete", id, FALSE, "sent", 0)
                  /\ history' = Mutated
                  /\ UNCHANGED clientProducts
        ELSE /\ clientProducts' = FilterOut(clientProducts, id)
             /\ step' = ClientStep("delete", "delete", id, FALSE, "none", 0)
             /\ history' = Mutated
             /\ UNCHANGED <<inflight, deletingId>>
    /\ UNCHANGED <<serverVars, app, threadVars, viewVars>>

\* the user submits the EditProductModal form of a product card
HandleUpdateProduct ==
    /\ history.actions < MaxUserActions
    /\ \E i \in 1..Len(clientProducts) :
        \E updatedProduct \in EditedProducts(clientProducts[i]) :
            IF app \in {"fetchUpdate", "modalUpdate"}
            THEN /\ inflight' = Append(inflight, Request("update", updatedProduct["id"],
                                                         <<updatedProduct>>, clientProducts))
                 /\ step' = ClientStep("update", "update", updatedProduct["id"], FALSE, "sent", 0)
                 /\ UNCHANGED clientProducts
            ELSE /\ clientProducts' = ReplaceById(clientProducts, updatedProduct)
                 /\ inflight' = IF app = "paginated"
                                THEN Append(inflight, Request("list", None, <<>>, <<>>))
                                ELSE inflight
                 /\ step' = ClientStep("update", "update", updatedProduct["id"], FALSE, "none", 0)
    /\ history' = Mutated
    /\ UNCHANGED <<serverVars, app, deletingId, threadVars, viewVars>>

\* the backend's answer to a request
Answer(req, fault) ==
    CASE req.op = "list" ->
            LET out == get_items(variant, products, session) IN
            [out |-> out, resp |-> route_get_items(variant, out.res)]
      [] req.op = "delete" ->
            LET out == delete_item(variant, products, session, req.id, fault) IN
            [out |-> out, resp |-> route_delete_item(variant, out.res)]
      [] req.op = "update" ->
            LET out == update_item(variant, products, session, req.id,
                                   JsonOf(req.data[1]), fault) IN
            [out |-> out, resp |-> route_update_item(variant, out.res)]

\* the backend serves a request and its response reaches the browser
Serve ==
    /\ \E i \in 1..Len(inflight), fault \in BOOLEAN :
        LET req == inflight[i]
            ans == Answer(req, fault) IN
        /\ req.phase = "sent"
        /\ (fault => req.op # "list")
        /\ products' = ans.out.products
        /\ session' = ans.out.session
        /\ inflight' = [inflight EXCEPT ![i] =
                           [req EXCEPT !.phase = "answered",
                                       !.status = ans.resp.status,
                                       !.body = ans.resp.body,
                                       !.items = IF ans.resp.body = "array"
                                                 THEN ans.out.res.items ELSE <<>>]]
        /\ step' = ClientStep("serve", req.op, req.id, FALSE, "answered", ans.resp.status)
    /\ UNCHANGED <<variant, last, app, clientProducts, deletingId, history, threadVars, viewVars>>

\* the fetch rejects: the backend is not reached
NetworkError ==
    /\ \E i \in 1..Len(inflight) :
        /\ inflight[i].phase = "sent"
        /\ inflight' = [inflight EXCEPT ![i] = [@ EXCEPT !.phase = "failed"]]
        /\ step' = ClientStep("reject", inflight[i].op, inflight[i].id, FALSE, "failed", 0)
    /\ UNCHANGED <<serverVars, app, clientProducts, deletingId, history, threadVars, viewVars>>

\* a settled fetch: the awaiting handler runs to its end
Resolve ==
    /\ \E i \in 1..Len(inflight) :
        LET req == inflight[i]
            eff == Settled(app, req, clientProducts)
            rest == RemoveAt(inflight, i) IN
        /\ req.phase # "sent"
        /\ clientProducts' = eff.list
        /\ inflight' = IF eff.reload
                       THEN Append(rest, Request("list", None, <<>>, <<>>))
                       ELSE rest
        /\ deletingId' = IF req.op = "delete" THEN None ELSE deletingId
        /\ history' = [history EXCEPT
                          !.loaded = history.loaded
                                        \/ (req.op = "list" /\ ~RequestFailed(req)),
                          !.failed = history.failed \/ RequestFailed(req)]
        /\ step' = ClientStep("resolve", req.op, req.id, eff.alert, req.phase, req.status)
    /\ UNCHANGED <<serverVars, app, threadVars, viewVars>>

ClientNext ==
    \/ HandleAddProduct
    \/ HandleDeleteProduct
    \/ HandleUpdateProduct
    \/ Serve
    \/ NetworkError
    \/ Resolve

ClientSpec == ClientInit /\ [][ClientNext]_vars

(***************************************************************************)
(* Concurrent requests.  app.run(debug=True) serves each request in its    *)
(* own thread, and every thread calls the one module-level service with    *)
(* its one Session.  A Session is not safe for concurrent use: a thread    *)
(* that enters session.commit() while another thread is inside it either   *)
(* gets through or is refused with InvalidRequestError.  session.commit()  *)
(* is a flush (the INSERTs of every pending object) followed by COMMIT.    *)
(***************************************************************************)

\* the threads serving POST /api/items; thread w carries id w
Workers == Ids

\* add_item catches the exception and rolls the session back
Catches(v) == v = "guarded"

\* what session.commit() of thread w can do: when another thread is between
\* the flush and the COMMIT of its session.commit(), it gets through or raises
RaceOutcomes(w) ==
    IF \E u \in Workers \ {w} : workers[u].pc = "flushed"
    THEN {"proceeds", "raises"} ELSE {"proceeds"}

\* add_item returns {'message': 'Item added', ...}; the route answers 201
Returned(w) ==
    workers' = [workers EXCEPT ![w] =
                   [@ EXCEPT !.pc = "done", !.res = "Item added", !.status = 201]]

\* an exception in add_item: caught, rolled back and answered with an error
\* message (status 201), or left to Flask (status 500)
Raised(w, e) ==
    /\ workers' = [workers EXCEPT ![w] =
                      [@ EXCEPT !.pc = "done",
                                !.res = IF Catches(variant) THEN "Error adding item" ELSE e,
                                !.status = IF Catches(variant) THEN 201 ELSE 500]]
    /\ IF Catches(variant)
       THEN sessionNew' = <<>> /\ sessionTxn' = <<>>
       ELSE UNCHANGED <<sessionNew, sessionTxn>>

ConcurrentInit ==
    /\ variant \in Variants
    /\ products = <<>>
    /\ session = "active"
    /\ last = Idle
    /\ NoClient
    /\ workers \in [Workers -> {[pc |-> "start", data |-> d, res |-> "", status |-> 0] :
                                   d \in Payloads({"id"} \cup BaseFields)}]
    /\ \A w \in Workers : workers[w].data["id"] = w
    /\ sessionNew = <<>>
    /\ sessionTxn = <<>>
    /\ NoView

\* product = Product(...); self.session.add(product)
SessionAdd ==
    /\ \E w \in Workers :
        /\ workers[w].pc = "start"
        /\ sessionNew' = Append(sessionNew, NewProduct(variant, workers[w].data))
        /\ workers' = [workers EXCEPT ![w] = [@ EXCEPT !.pc = "added"]]
    /\ UNCHANGED <<serverVars, clientVars, sessionTxn, viewVars>>

\* self.session.commit(), first half: the pending objects are INSERTed
CommitFlush ==
    /\ \E w \in Workers : \E outcome \in RaceOutcomes(w) :
        /\ workers[w].pc = "added"
        /\ IF outcome = "raises" THEN Raised(w, "InvalidRequestError")
           ELSE IF \E i \in 1..Len(sessionNew) :
                      InsertFails(products \o sessionTxn, sessionNew[i], FALSE)
           THEN Raised(w, "IntegrityError")
           ELSE /\ sessionTxn' = sessionTxn \o sessionNew
                /\ sessionNew' = <<>>
                /\ workers' = [workers EXCEPT ![w] = [@ EXCEPT !.pc = "flushed"]]
    /\ UNCHANGED <<serverVars, clientVars, viewVars>>

\* self.session.commit(), second half: COMMIT
CommitEnd ==
    /\ \E w \in Workers : \E outcome \in RaceOutcomes(w) :
        /\ workers[w].pc = "flushed"
        /\ IF outcome = "raises"
           THEN Raised(w, "InvalidRequestError") /\ UNCHANGED products
           ELSE /\ products' = products \o sessionTxn
                /\ sessionTxn' = <<>>
                /\ UNCHANGED sessionNew
                /\ IF variant \in {"step3", "guarded"}
                   THEN workers' = [workers EXCEPT ![w] = [@ EXCEPT !.pc = "committed"]]
                   ELSE Returned(w)
    /\ UNCHANGED <<variant, session, last, clientVars, viewVars>>

\* self.session.refresh(product): the row is read back by its id
SessionRefresh ==
    /\ \E w \in Workers :
        /\ workers[w].pc = "committed"
        /\ IF RowIndex(products \o sessionTxn, w) # 0
           THEN Returned(w) /\ UNCHANGED <<sessionNew, sessionTxn>>
           ELSE Raised(w, "InvalidRequestError")
    /\ UNCHANGED <<serverVars, clientVars, viewVars>>

ConcurrentNext == SessionAdd \/ CommitFlush \/ CommitEnd \/ SessionRefresh

ConcurrentSpec == ConcurrentInit /\ [][ConcurrentNext]_vars

(***************************************************************************)
(* The derived metrics of the views: Dashboard (src/unnamed/part_001) and  *)
(* ProductCard (src/Documentation/ui_frontend_documentation.md:1242-1251), *)
(* recomputed from the product list on every render.                       *)
(***************************************************************************)

\* quantities and reorder levels of the products on screen; a record loaded
\* from a backend without the reorderLevel column has it undefined
StockProducts(id) ==
    {[k \in {"id", "name", "quantity", "reorderLevel"} |->
         CASE k = "id" -> id [] k = "name" -> 1 [] k = "quantity" -> q [] OTHER -> r] :
       q \in 0..(MaxQty + 1), r \in (0..MaxQty) \cup {None}}

StockLists ==
    {<<>>} \cup {<<p>> : p \in StockProducts(1) \cup StockProducts(2)}
           \cup {<<p, q>> : p \in StockProducts(1), q \in StockProducts(2)}

isLowStockStrict(product) ==
    product["reorderLevel"] # None /\ product["quantity"] < product["reorderLevel"]

\* const isLowStock = product.quantity <= product.reorderLevel;
\* a comparison with undefined is false
isLowStock(product) ==
    product["reorderLevel"] # None /\ product["quantity"] <= product["reorderLevel"]

\* const lowStockItems = products.filter(p => p.quantity <= p.reorderLevel);
lowStockItems(list) ==
    SelectSeq(list, LAMBDA p : p["reorderLevel"] # None /\ p["quantity"] <= p["reorderLevel"])

DashboardInit ==
    /\ variant = "complete"
    /\ products = <<>>
    /\ session = "active"
    /\ last = Idle
    /\ app = "local"
    /\ clientProducts \in StockLists
    /\ inflight = <<>>
    /\ deletingId = None
    /\ history = NoHistory
    /\ step = NoStep
    /\ NoThreads
    /\ NoView

\* <Dashboard products={products} />
RenderDashboard ==
    /\ view' = [view EXCEPT !.dashboard = TRUE,
                            !.lowStockItems = lowStockItems(clientProducts)]
    /\ UNCHANGED <<serverVars, clientVars, threadVars, clock, expiry, orderVars, pageVars>>

\* <InventoryList products={products} ... />: one ProductCard per product
RenderInventoryList ==
    /\ view' = [view EXCEPT !.inventory = TRUE,
                            !.cards = [i \in 1..Len(clientProducts) |->
                                          [id |-> clientProducts[i]["id"],
                                           isLowStock |-> isLowStock(clientProducts[i])]]]
    /\ UNCHANGED <<serverVars, clientVars, threadVars, clock, expiry, orderVars, pageVars>>

DashboardNext == RenderDashboard \/ RenderInventoryList

DashboardSpec == DashboardInit /\ [][DashboardNext]_vars

(***************************************************************************)
(* The expiring-soon metric of Dashboard (src/unnamed/part_001:16-22) and  *)
(* ProductCard (ui_frontend_documentation.md:1247-1251).  The clock counts *)
(* ticks since midnight UTC of day 0; new Date('YYYY-MM-DD') is midnight   *)
(* UTC of that day.                                                        *)
(***************************************************************************)

\* clock ticks in one day (1000 * 60 * 60 * 24 milliseconds in the source)
DayTicks == 3

\* the horizon of "expiring soon", in days
Horizon == 90

\* the clock runs over two days
ClockEnd == 2 * DayTicks - 1

ExpiryProducts ==
    {[k \in {"id", "name", "expirationDate"} |->
         IF k = "expirationDate" THEN d ELSE 1] : d \in 0..(Horizon + 3)}

\* Math.floor((expirationDate.getTime() - today.getTime()) / (1000 * 60 * 60 * 24))
\* where new Date(product.expirationDate) is midnight of that day
daysUntilExpiration(product, today) ==
    (product["expirationDate"] * DayTicks - today) \div DayTicks

\* daysUntilExpiration <= 90 && daysUntilExpiration > 0
isExpiringSoon(product, today) ==
    /\ daysUntilExpiration(product, today) <= Horizon
    /\ daysUntilExpiration(product, today) > 0

\* const expiringSoon = products.filter(p => { ... })
expiringSoon(list, today) == SelectSeq(list, LAMBDA p : isExpiringSoon(p, today))

ExpiryInit ==
    /\ variant = "complete"
    /\ products = <<>>
    /\ session = "active"
    /\ last = Idle
    /\ app = "local"
    /\ \E p \in ExpiryProducts : clientProducts = <<p>>
    /\ inflight = <<>>
    /\ deletingId = None
    /\ history = NoHistory
    /\ step = NoStep
    /\ NoThreads
    /\ view = [dashboard |-> FALSE, inventory |-> FALSE, lowStockItems |-> <<>>, cards |-> <<>>]
    /\ clock \in 0..(DayTicks - 1)
    /\ expiry = NoExpiry
    /\ NoOrders
    /\ NoPages

\* time passes
ClockTick ==
    /\ clock < ClockEnd
    /\ clock' = clock + 1
    /\ UNCHANGED <<serverVars, clientVars, threadVars, view, expiry, orderVars, pageVars>>

\* the Dashboard renders: const today = new Date()
RenderExpiringSoon ==
    /\ expiry' = [expiry EXCEPT !.dashboard = TRUE,
                                !.dashboardAt = clock,
                                !.expiringSoon = expiringSoon(clientProducts, clock)]
    /\ UNCHANGED <<serverVars, clientVars, threadVars, view, clock, orderVars, pageVars>>

\* the ProductCard renders: const today = new Date()
RenderCardExpiry ==
    /\ expiry' = [expiry EXCEPT !.card = TRUE,
                                !.cardAt = clock,
                                !.isExpiringSoon = isExpiringSoon(clientProducts[1], clock)]
    /\ UNCHANGED <<serverVars, clientVars, threadVars, view, clock, orderVars, pageVars>>

ExpiryNext == ClockTick \/ RenderExpiringSoon \/ RenderCardExpiry

ExpirySpec == ExpiryInit /\ [][ExpiryNext]_vars

(***************************************************************************)
(* The lists kept in component state only: the products of src/App.tsx,    *)
(* the purchase orders of PurchaseOrders.tsx and the damaged reports of    *)
(* DamagedReturns.tsx, with the CreatePOModal form.  A created entry gets  *)
(* Date.now().toString() as its id; the clock need not have advanced       *)
(* between two creates.  The container shows one view at a time            *)
(* (currentView); a behaviour follows the list of one view.                *)
(***************************************************************************)

\* the item rows the user fills in, and what is typed into them
ItemSlots == {1, 2}
POQuantities == {1, 2}
UnitPrices == {0, 1}

\* the sample orders '2' and '3'; the totalAmount of '3' is not the sum of
\* its items (12248.50 against 8248.50 + 3999.00)
initialPOs ==
    << [id |-> 2, status |-> "pending", items |-> <<[quantity |-> 2, unitPrice |-> 1]>>, totalAmount |-> 2],
       [id |-> 3, status |-> "shipped", items |-> <<[quantity |-> 2, unitPrice |-> 1], [quantity |-> 1, unitPrice |-> 1]>>,
        totalAmount |-> 4] >>

\* items.reduce((sum, item) => sum + (item.quantity * item.unitPrice), 0)
RECURSIVE SumItems(_)
SumItems(items) ==
    IF items = <<>> THEN 0
    ELSE SumItems(SubSeq(items, 1, Len(items) - 1))
            + items[Len(items)].quantity * items[Len(items)].unitPrice

\* { ...record, id: Date.now().toString() }
WithId(record, now) ==
    [k \in DOMAIN record \cup {"id"} |-> IF k = "id" THEN now ELSE record[k]]

\* setProducts([...products, newProduct])
handleAddProduct(list, product, now) == Append(list, WithId(product, now))

\* setPurchaseOrders([newPO, ...purchaseOrders])
handleCreatePO(list, po, now) == <<WithId(po, now)>> \o list

\* setReports([newReport, ...reports])
handleCreateReport(list, report, now) == <<WithId(report, now)>> \o list

\* the records an update handler is called with an edit of: an entry of the
\* list, or a record whose id no entry has
UpdateTargets(list) ==
    {list[i] : i \in 1..Len(list)} \cup {WithId(list[i], ClockEnd + 1) : i \in 1..Len(list)}

\* EditPOModal.handleSubmit: { ...purchaseOrder, status, expectedDate, notes }
EditedPOs(po) ==
    {[po EXCEPT !.status = st] :
        st \in {"pending", "confirmed", "shipped", "received", "cancelled"} \ {po.status}}

\* a report with another status
EditedReports(r) ==
    {[r EXCEPT !.status = st] : st \in {"reported", "processing", "resolved"} \ {r.status}}

OrdersInit ==
    /\ variant = "complete"
    /\ products = <<>>
    /\ session = "active"
    /\ last = Idle
    /\ app = "local"
    /\ clientProducts \in {<<>>, <<ClientRecord(SeedData(1))>>}
    /\ inflight = <<>>
    /\ deletingId = None
    /\ history = NoHistory
    /\ step = NoStep
    /\ NoThreads
    /\ view = [dashboard |-> FALSE, inventory |-> FALSE, lowStockItems |-> <<>>, cards |-> <<>>]
    /\ clock = ClockEnd - 1
    /\ expiry = NoExpiry
    /\ purchaseOrders = initialPOs
    /\ reports = << [id |-> 1, status |-> "processing", quantity |-> 1] >>
    /\ poModal = [open |-> FALSE, items |-> <<>>]
    /\ \E currentView \in {"products", "purchaseOrders", "reports"} :
          edit = [list |-> currentView, act |-> "none", arg |-> <<>>, prev |-> <<>>]
    /\ NoPages

\* App.handleAddProduct
AddProduct ==
    /\ edit.list = "products"
    /\ history.actions < MaxUserActions
    /\ \E form \in NewForms :
        /\ clientProducts' = handleAddProduct(clientProducts, form, clock)
        /\ edit' = [list |-> "products", act |-> "create", arg |-> WithId(form, clock),
                    prev |-> clientProducts]
    /\ history' = [history EXCEPT !.actions = history.actions + 1]
    /\ UNCHANGED <<serverVars, app, inflight, deletingId, step, threadVars,
                   view, clock, expiry, purchaseOrders, reports, poModal, pageVars>>

\* App.handleUpdateProduct
UpdateProduct ==
    /\ edit.list = "products"
    /\ history.actions < MaxUserActions
    /\ \E t \in UpdateTargets(clientProducts) : \E u \in EditedProducts(t) :
        /\ clientProducts' = ReplaceById(clientProducts, u)
        /\ edit' = [list |-> "products", act |-> "update", arg |-> u,
                    prev |-> clientProducts]
    /\ history' = [history EXCEPT !.actions = history.actions + 1]
    /\ UNCHANGED <<serverVars, app, inflight, deletingId, step, threadVars,
                   view, clock, expiry, purchaseOrders, reports, poModal, pageVars>>

\* the Create Purchase Order button: the modal mounts with one empty item row
OpenCreateModal ==
    /\ edit.list = "purchaseOrders"
    /\ history.actions < MaxUserActions
    /\ ~poModal.open
    /\ poModal' = [open |-> TRUE, items |-> <<[quantity |-> 1, unitPrice |-> 0]>>]
    /\ UNCHANGED <<serverVars, clientVars, threadVars, view, clock, expiry,
                   purchaseOrders, reports, edit, pageVars>>

\* CreatePOModal.handleAddItem
HandleAddItem ==
    /\ poModal.open
    /\ Len(poModal.items) < Cardinality(ItemSlots)
    /\ poModal' = [poModal EXCEPT !.items = Append(poModal.items, [quantity |-> 1, unitPrice |-> 0])]
    /\ UNCHANGED <<serverVars, clientVars, threadVars, view, clock, expiry,
                   purchaseOrders, reports, edit, pageVars>>

HandleRemoveItemAny ==
    /\ poModal.open
    /\ \E index \in 1..Len(poModal.items) :
        poModal' = [poModal EXCEPT !.items = RemoveAt(poModal.items, index)]
    /\ UNCHANGED <<serverVars, clientVars, threadVars, view, clock, expiry,
                   purchaseOrders, reports, edit, pageVars>>

\* CreatePOModal.handleRemoveItem; its button is disabled when one row is left
HandleRemoveItem ==
    /\ poModal.open
    /\ Len(poModal.items) # 1
    /\ \E index \in 1..Len(poModal.items) :
        poModal' = [poModal EXCEPT !.items = RemoveAt(poModal.items, index)]
    /\ UNCHANGED <<serverVars, clientVars, threadVars, view, clock, expiry,
                   purchaseOrders, reports, edit, pageVars>>

\* CreatePOModal.handleItemChange on the quantity or the unit price of a row
HandleItemChange ==
    /\ poModal.open
    /\ \E index \in 1..Len(poModal.items) :
        \/ \E value \in POQuantities :
              poModal' = [poModal EXCEPT !.items[index].quantity = value]
        \/ \E value \in UnitPrices :
              poModal' = [poModal EXCEPT !.items[index].unitPrice = value]
    /\ UNCHANGED <<serverVars, clientVars, threadVars, view, clock, expiry,
                   purchaseOrders, reports, edit, pageVars>>

\* CreatePOModal.handleSubmit, then PurchaseOrders.handleCreatePO
HandleSubmitPO ==
    /\ edit.list = "purchaseOrders"
    /\ history.actions < MaxUserActions
    /\ poModal.open
    /\ LET po == [status |-> "pending", items |-> poModal.items,
                  totalAmount |-> SumItems(poModal.items)] IN
        /\ purchaseOrders' = handleCreatePO(purchaseOrders, po, clock)
        /\ edit' = [list |-> "purchaseOrders", act |-> "create",
                    arg |-> WithId(po, clock), prev |-> purchaseOrders]
    /\ poModal' = [open |-> FALSE, items |-> <<>>]
    /\ history' = [history EXCEPT !.actions = history.actions + 1]
    /\ UNCHANGED <<serverVars, app, clientProducts, inflight, deletingId, step,
                   threadVars, view, clock, expiry, reports, pageVars>>

\* EditPOModal.handleSubmit, then PurchaseOrders.handleUpdatePO; the cards
\* are out of reach while the create modal covers the page
HandleEditPO ==
    /\ edit.list = "purchaseOrders"
    /\ ~poModal.open
    /\ history.actions < MaxUserActions
    /\ \E t \in UpdateTargets(purchaseOrders) : \E u \in EditedPOs(t) :
        /\ purchaseOrders' = ReplaceById(purchaseOrders, u)
        /\ edit' = [list |-> "purchaseOrders", act |-> "update", arg |-> u,
                    prev |-> purchaseOrders]
    /\ history' = [history EXCEPT !.actions = history.actions + 1]
    /\ UNCHANGED <<serverVars, app, clientProducts, inflight, deletingId, step,
                   threadVars, view, clock, expiry, reports, poModal, pageVars>>

\* PurchaseOrderCard.handleMarkAsReceived; the button shows on shipped orders
HandleMarkAsReceived ==
    /\ edit.list = "purchaseOrders"
    /\ ~poModal.open
    /\ history.actions < MaxUserActions
    /\ \E i \in 1..Len(purchaseOrders) :
        LET u == [purchaseOrders[i] EXCEPT !.status = "received"] IN
        /\ purchaseOrders[i].status = "shipped"
        /\ purchaseOrders' = ReplaceById(purchaseOrders, u)
        /\ edit' = [list |-> "purchaseOrders", act |-> "received", arg |-> u,
                    prev |-> purchaseOrders]
    /\ history' = [history EXCEPT !.actions = history.actions + 1]
    /\ UNCHANGED <<serverVars, app, clientProducts, inflight, deletingId, step,
                   threadVars, view, clock, expiry, reports, poModal, pageVars>>

\* ReportDamagedModal submit, then DamagedReturns.handleCreateReport
HandleCreateReport ==
    /\ edit.list = "reports"
    /\ history.actions < MaxUserActions
    /\ LET report == [status |-> "reported", quantity |-> 1] IN
        /\ reports' = handleCreateReport(reports, report, clock)
        /\ edit' = [list |-> "reports", act |-> "create", arg |-> WithId(report, clock),
                    prev |-> reports]
    /\ history' = [history EXCEPT !.actions = history.actions + 1]
    /\ UNCHANGED <<serverVars, app, clientProducts, inflight, deletingId, step,
                   threadVars, view, clock, expiry, purchaseOrders, poModal, pageVars>>

\* DamagedReturns.handleUpdateReport: reports.map(r => r.id === u.id ? u : r)
HandleUpdateReport ==
    /\ edit.list = "reports"
    /\ history.actions < MaxUserActions
    /\ \E t \in UpdateTargets(reports) : \E u \in EditedReports(t) :
        /\ reports' = ReplaceById(reports, u)
        /\ edit' = [list |-> "reports", act |-> "update", arg |-> u,
                    prev |-> reports]
    /\ history' = [history EXCEPT !.actions = history.actions + 1]
    /\ UNCHANGED <<serverVars, app, clientProducts, inflight, deletingId, step,
                   threadVars, view, clock, expiry, purchaseOrders, poModal, pageVars>>

OrdersNext ==
    \/ ClockTick
    \/ AddProduct
    \/ UpdateProduct
    \/ OpenCreateModal
    \/ HandleAddItem
    \/ HandleRemoveItem
    \/ HandleItemChange
    \/ HandleSubmitPO
    \/ HandleEditPO
    \/ HandleMarkAsReceived
    \/ HandleCreateReport
    \/ HandleUpdateReport

OrdersSpec == OrdersInit /\ [][OrdersNext]_vars

(***************************************************************************)
(* Pagination (src/unnamed/part_006): the paginated get_items of the       *)
(* service, the page strip of the Pagination component, and the container  *)
(* that loads one page at a time.                                          *)
(***************************************************************************)

\* per_page is capped: min(max(1, per_page), 100)
PerPageCap == 100

\* useState(20)
DefaultPerPage == 20

\* const maxVisible = 7
maxVisible == 7

\* the '...' entry of the page strip
Ellipsis == 0

\* the largest totalPages the strip is rendered for
MaxPages == 12

Max(a, b) == IF a >= b THEN a ELSE b

Min(a, b) == IF a <= b THEN a ELSE b

PagedResult(items, page, per_page, total_items, total_pages) ==
    [items |-> items,
     pagination |-> [page |-> page, per_page |-> per_page,
                     total_items |-> total_items, total_pages |-> total_pages,
                     has_next |-> page < total_pages, has_prev |-> page > 1]]

get_items_unclamped(table, page, per_page) ==
    LET offset == (page - 1) * per_page
        total_items == Len(table)
    IN  PagedResult(SubSeq(table, offset + 1, Min(offset + per_page, total_items)),
                    page, per_page, total_items,
                    (total_items + per_page - 1) \div Max(1, per_page))

\* InventoryService.get_items(page, per_page)
get_items_paged(table, page, per_page) ==
    LET page1 == Max(1, page)
        per_page1 == Min(Max(1, per_page), PerPageCap)
        offset == (page1 - 1) * per_page1
        total_items == Len(table)
    IN  PagedResult(SubSeq(table, offset + 1, Min(offset + per_page1, total_items)),
                    page1, per_page1, total_items,
                    (total_items + per_page1 - 1) \div per_page1)

QueryInit ==
    /\ variant = "complete"
    /\ products = <<>>
    /\ session = "active"
    /\ last = Idle
    /\ NoClient
    /\ NoThreads
    /\ view = [dashboard |-> FALSE, inventory |-> FALSE, lowStockItems |-> <<>>, cards |-> <<>>]
    /\ clock = 0
    /\ expiry = NoExpiry
    /\ NoOrders
    /\ \E n \in {0, 1, 2, 3, PerPageCap + 1},
          page \in {-1, 0, 1, 2, 3},
          per_page \in {-1, 0, 1, 2, PerPageCap, PerPageCap + 1} :
          query = [table |-> [i \in 1..n |-> i], page |-> page, per_page |-> per_page,
                   result |-> <<>>]
    /\ pager = NoPager
    /\ strip = <<>>

\* GET /api/items?page=..&per_page=..
RoutePagedItems ==
    /\ query.result = <<>>
    /\ query' = [query EXCEPT
                    !.result = get_items_paged(query.table, query.page, query.per_page)]
    /\ UNCHANGED <<serverVars, clientVars, threadVars, view, clock, expiry,
                   orderVars, pager, strip>>

QuerySpec == QueryInit /\ [][RoutePagedItems]_vars

RECURSIVE Range(_, _)
Range(a, b) == IF a > b THEN <<>> ELSE <<a>> \o Range(a + 1, b)

getPageNumbersEager(currentPage, totalPages) ==
    IF totalPages <= maxVisible
    THEN Range(1, totalPages)
    ELSE <<1>>
         \o (IF currentPage > 2 THEN <<Ellipsis>> ELSE <<>>)
         \o Range(Max(2, currentPage - 1), Min(totalPages - 1, currentPage + 1))
         \o (IF currentPage < totalPages - 2 THEN <<Ellipsis>> ELSE <<>>)
         \o <<totalPages>>

\* Pagination.getPageNumbers
getPageNumbers(currentPage, totalPages) ==
    IF totalPages <= maxVisible
    THEN Range(1, totalPages)
    ELSE <<1>>
         \o (IF currentPage > 3 THEN <<Ellipsis>> ELSE <<>>)
         \o Range(Max(2, currentPage - 1), Min(totalPages - 1, currentPage + 1))
         \o (IF currentPage < totalPages - 2 THEN <<Ellipsis>> ELSE <<>>)
         \o <<totalPages>>

StripInit ==
    /\ variant = "complete"
    /\ products = <<>>
    /\ session = "active"
    /\ last = Idle
    /\ NoClient
    /\ NoThreads
    /\ view = [dashboard |-> FALSE, inventory |-> FALSE, lowStockItems |-> <<>>, cards |-> <<>>]
    /\ clock = 0
    /\ expiry = NoExpiry
    /\ NoOrders
    /\ query = <<>>
    /\ pager = NoPager
    /\ \E totalPages \in 1..MaxPages :
          \E currentPage \in 1..totalPages :
              strip = [totalPages |-> totalPages, currentPage |-> currentPage,
                       pages |-> <<>>]

\* the Pagination component renders its page buttons
RenderPagination ==
    /\ strip.pages = <<>>
    /\ strip' = [strip EXCEPT !.pages = getPageNumbers(strip.currentPage, strip.totalPages)]
    /\ UNCHANGED <<serverVars, clientVars, threadVars, view, clock, expiry,
                   orderVars, query, pager>>

StripSpec == StripInit /\ [][RenderPagination]_vars

\* a fetch of the paginated container: the page load of loadProducts, or the
\* DELETE of handleDeleteProduct with the currentPage and itemsPerPage the
\* handler closed over
PageRequest(op, id, page, perPage) ==
    [op |-> op, id |-> id, page |-> page, perPage |-> perPage]

\* {pagination && pagination.total_pages > 1 && (<Pagination ... />)}
PaginationShown ==
    /\ pager.pagination # <<>>
    /\ pager.pagination.total_pages > 1
    /\ ~pager.isLoading

PagedInit ==
    /\ variant = "complete"
    /\ products = <<>>
    /\ session = "active"
    /\ last = Idle
    /\ app = "paginated"
    /\ clientProducts = <<>>
    /\ inflight = <<>>
    /\ deletingId = None
    /\ history = NoHistory
    /\ step = NoStep
    /\ NoThreads
    /\ view = [dashboard |-> FALSE, inventory |-> FALSE, lowStockItems |-> <<>>, cards |-> <<>>]
    /\ clock = 0
    /\ expiry = NoExpiry
    /\ NoOrders
    /\ query = <<>>
    /\ strip = <<>>
    /\ \E n \in {0, 1, DefaultPerPage + 1} :
          pager = [NoPager EXCEPT !.table = [i \in 1..n |-> i],
                                  !.itemsPerPage = DefaultPerPage,
                                  !.isLoading = TRUE,
                                  !.pending = <<PageRequest("load", None, 1, DefaultPerPage)>>,
                                  !.act = "mount"]

\* App.handlePageChange: loadProducts(page, itemsPerPage), for a page the
\* Pagination component offers: one of its numbered buttons, or the previous
\* or next button unless disabled
HandlePageChange ==
    /\ history.actions < MaxUserActions
    /\ PaginationShown
    /\ \E page \in 1..(pager.pagination.total_pages + 1) :
          /\ LET pg == pager.pagination
                 numbers == getPageNumbers(pg.page, pg.total_pages) IN
             \/ \E k \in 1..Len(numbers) : numbers[k] = page
             \/ pg.has_prev /\ page = pg.page - 1
             \/ pg.has_next /\ page = pg.page + 1
          /\ pager' = [pager EXCEPT
                       !.isLoading = TRUE,
                       !.pending = Append(pager.pending, PageRequest("load", None, page, pager.itemsPerPage)),
                       !.act = "page"]
    /\ history' = [history EXCEPT !.actions = history.actions + 1]
    /\ UNCHANGED <<serverVars, app, clientProducts, inflight, deletingId, step,
                   threadVars, view, clock, expiry, orderVars, query, strip>>

\* App.handlePerPageChange: setItemsPerPage(perPage); loadProducts(1, perPage),
\* with perPage one of the <option> values of the select
HandlePerPageChange ==
    /\ history.actions < MaxUserActions
    /\ PaginationShown
    /\ \E perPage \in {10, 20, 50, 100} \ {pager.pagination.per_page} :
          pager' = [pager EXCEPT
                       !.itemsPerPage = perPage,
                       !.isLoading = TRUE,
                       !.pending = Append(pager.pending, PageRequest("load", None, 1, perPage)),
                       !.act = "perPage"]
    /\ history' = [history EXCEPT !.actions = history.actions + 1]
    /\ UNCHANGED <<serverVars, app, clientProducts, inflight, deletingId, step,
                   threadVars, view, clock, expiry, orderVars, query, strip>>

\* App.handleDeleteProduct up to its `await fetch(...)`; the cards give way
\* to the spinner while a page is loading
HandlePagedDelete ==
    /\ history.actions < MaxUserActions
    /\ ~pager.isLoading
    /\ \E i \in 1..Len(pager.products) :
          pager' = [pager EXCEPT
                       !.pending = Append(pager.pending,
                                          PageRequest("delete", pager.products[i], pager.currentPage,
                                                        pager.itemsPerPage)),
                       !.act = "delete"]
    /\ history' = [history EXCEPT !.actions = history.actions + 1]
    /\ UNCHANGED <<serverVars, app, clientProducts, inflight, deletingId, step,
                   threadVars, view, clock, expiry, orderVars, query, strip>>

\* loadProducts after `await fetch(...)`
LoadResolved(req, others, ok) ==
    LET data == get_items_paged(pager.table, req.page, req.perPage)
        rest == [pager EXCEPT !.pending = others, !.isLoading = FALSE] IN
    IF ok
    THEN [rest EXCEPT !.products = data.items,
                      !.pagination = data.pagination,
                      !.currentPage = req.page,
                      !.act = "loaded"]
    ELSE [rest EXCEPT !.act = "loadFailed"]

\* handleDeleteProduct after `await fetch(...)`: response.ok reloads the page
DeleteResolved(req, others, ok) ==
    LET found == \E k \in 1..Len(pager.table) : pager.table[k] = req.id
        rest == [pager EXCEPT !.pending = others] IN
    IF ok /\ found
    THEN [rest EXCEPT !.table = SelectSeq(pager.table, LAMBDA r : r # req.id),
                      !.isLoading = TRUE,
                      !.pending = Append(others, PageRequest("load", None, req.page, req.perPage)),
                      !.act = "deleted"]
    ELSE [rest EXCEPT !.act = "deleteFailed"]

\* a request is answered (ok) or fails, and its handler runs on
PagedResolve ==
    /\ \E i \in 1..Len(pager.pending), ok \in BOOLEAN :
          pager' = IF pager.pending[i].op = "load"
                   THEN LoadResolved(pager.pending[i], RemoveAt(pager.pending, i), ok)
                   ELSE DeleteResolved(pager.pending[i], RemoveAt(pager.pending, i), ok)
    /\ UNCHANGED <<serverVars, clientVars, threadVars, view, clock, expiry,
                   orderVars, query, strip>>

PagedNext ==
    \/ HandlePageChange
    \/ HandlePerPageChange
    \/ HandlePagedDelete
    \/ PagedResolve

PagedSpec == PagedInit /\ [][PagedNext]_vars

(***************************************************************************)
(* Properties                                                              *)
(***************************************************************************)

HasRow(tbl, id) == RowIndex(tbl, id) # 0

\* what get(id) answers in the current state
GetNow(id) == get_item(variant, products, session, id).res

\* C1: after a successful create of a payload carrying every field of the
\* data model, get(id) returns a record that has every field of the payload
\* with the payload's value.
C1_CreateThenGetEqualsInput ==
    (last.op = "add" /\ last.res.message = "Item added" /\ DOMAIN last.data = AllFields)
        => LET got == GetNow(last.data["id"]) IN
           /\ Len(got.item) = 1
           /\ \A k \in AllFields :
                 k \in DOMAIN got.item[1] /\ got.item[1][k] = last.data[k]

\* C2: a create whose id already has a row fails: the table is exactly as
\* before (no second row, the existing row untouched) and the answer is not
\* the success answer.
C2_DuplicateCreateFails ==
    (last.op = "add" /\ last.id # None /\ HasRow(last.prev, last.id))
        => /\ products = last.prev
           /\ last.res.message # "Item added"

\* C2 witness: a well-formed create on a healthy session for an id whose
\* stored row differs from the payload.
C2_DuplicateCreateSeen ==
    /\ last.op = "add"
    /\ last.id # None
    /\ HasRow(last.prev, last.id)
    /\ last.prevSession = "active"
    /\ ~last.fault
    /\ ~ConstructorRaises(variant, last.data)
    /\ last.prev[RowIndex(last.prev, last.id)]["name"] # last.data["name"]

\* C3: no two rows of the products table have the same id.
C3_UniqueIds ==
    \A i, j \in 1..Len(products) :
        i # j => products[i]["id"] # products[j]["id"]

\* C3 witness: with two rows stored, an update asked to give one row the id
\* of the other has been served.
C3_KeyCollisionTried ==
    /\ Len(products) = 2
    /\ last.prevSession = "active"
    /\ ~last.fault
    /\ last.op = "update"
    /\ "id" \in DOMAIN last.data
    /\ last.data["id"] # last.id
    /\ HasRow(last.prev, last.id)
    /\ HasRow(last.prev, last.data["id"])
    /\ "id" \in AssignedKeys(variant, last.data)

\* C4: an update of an existing row leaves every other row, and every field
\* of the row that the payload does not name, as stored before.
C4_UpdateFrame ==
    (last.op = "update" /\ HasRow(last.prev, last.id))
        => LET i == RowIndex(last.prev, last.id) IN
           /\ Len(products) = Len(last.prev)
           /\ \A j \in 1..Len(products) : j # i => products[j] = last.prev[j]
           /\ \A c \in DOMAIN last.prev[i] :
                 c \notin DOMAIN last.data => products[i][c] = last.prev[i][c]

\* C4 witness: a partial update {quantity} changed the quantity of one of
\* two stored rows.
C4_PartialUpdateApplied ==
    /\ last.op = "update"
    /\ DOMAIN last.data = {"quantity"}
    /\ last.res.message \in {"Item updated", "item updated"}
    /\ Len(last.prev) = 2
    /\ products # last.prev

\* C5: an update never changes the id of the row it updates.
C5_UpdateKeepsId ==
    (last.op = "update" /\ HasRow(last.prev, last.id))
        => LET i == RowIndex(last.prev, last.id) IN
           /\ Len(products) = Len(last.prev)
           /\ products[i]["id"] = last.prev[i]["id"]

\* C6: after a successful delete of id, get(id) answers None and
\* GET /items/{id} answers 404.
C6_DeletedIsNotFound ==
    (last.op = "delete" /\ last.res.message \in {"Item deleted", "Item deleted successfully"})
        => /\ GetNow(last.id).kind = "None"
           /\ route_get_item(variant, GetNow(last.id)).status = 404

\* C7: an update or delete of an id that has no row answers a not-found
\* signal, raises nothing and leaves the table as it was.
C7_MissingIdIsNotFound ==
    (last.op \in {"update", "delete"} /\ ~HasRow(last.prev, last.id))
        => /\ last.res.exc = "none"
           /\ last.res.message \in {"Item not found", "item not found"}
           /\ products = last.prev

\* C8: when the commit of an add, update or delete fails, the table is as
\* before and the session has been rolled back, ready for later operations.
C8_FailedCommitRolledBack ==
    (/\ last.op \in {"add", "update", "delete"}
     /\ last.prevSession = "active"
     /\ \/ last.res.exc \in {"IntegrityError", "OperationalError"}
        \/ last.res.message \in {"Error adding item", "Error updating item",
                                  "Error deleting item"})
        => (products = last.prev /\ session = "active")

\* C9: GET /items on a table without rows answers 200 with an empty array.
C9_EmptyListIsEmptyArray ==
    (last.op = "list" /\ Len(last.prev) = 0)
        => /\ last.status = 200
           /\ last.body = "array"
           /\ last.res.items = <<>>

\* C10: GET, PUT and DELETE /items/{id} answer 404 when no row has the id
\* and 200 when one has.
C10_ByIdStatus ==
    (last.op \in {"get", "update", "delete"})
        => last.status = (IF HasRow(last.prev, last.id) THEN 200 ELSE 404)

\* C11: POST /items answers 201 exactly when the request created a row; a
\* failed add (duplicate id, missing id, refused write) is answered with a
\* 4xx or 5xx status.
C11_PostStatusMirrorsAdd ==
    (last.op = "add")
        => IF Len(products) = Len(last.prev) + 1
           THEN last.status = 201
           ELSE last.status >= 400

\* the request the last client step settled had failed
SettledFailed(op) ==
    /\ step.act = "resolve"
    /\ step.op = op
    /\ (step.phase = "failed" \/ ~ResponseOk(step.status))

\* C12: a delete action takes the entry out of the client's list only in the
\* step that handles a 200 answer to its DELETE request, never before.
C12_DeleteAfterConfirmation ==
    (/\ step.op = "delete"
     /\ step.id \in IdsOf(step.prev)
     /\ step.id \notin IdsOf(clientProducts))
        => (step.act = "resolve" /\ step.phase = "answered" /\ step.status = 200)

C14_UpdateAfterAcceptance ==
    /\ (step.op = "update" /\ clientProducts # step.prev)
          => (step.act = "resolve" /\ step.phase = "answered" /\ ResponseOk(step.status))
    /\ SettledFailed("update") => (clientProducts = step.prev /\ step.alert)

\* C15: a create action sends the new product to the backend, and when that
\* request fails the product is not in the client's list.
C15_CreateIsSent ==
    /\ (step.act = "add")
          => \E i \in 1..Len(inflight) :
                inflight[i].op = "create" /\ inflight[i].id = step.id
    /\ SettledFailed("create") => step.id \notin IdsOf(clientProducts)

\* C16: when the first list has been loaded, no request is under way and no
\* request has failed, the client's list holds exactly the rows of the
\* backend table.
C16_ClientInSync ==
    (/\ history.loaded
     /\ ~history.early
     /\ ~history.failed
     /\ inflight = <<>>)
        => /\ Len(clientProducts) = Len(products)
           /\ IdsOf(clientProducts) = IdsOf(products)
           /\ \A i \in 1..Len(clientProducts), j \in 1..Len(products) :
                 clientProducts[i]["id"] = products[j]["id"]
                     => \A k \in ClientFields : clientProducts[i][k] = products[j][k]

\* C17: no two update or delete requests for the same product id are under
\* way at the same time.
C17_OneMutationPerId ==
    \A i, j \in 1..Len(inflight) :
        (/\ i # j
         /\ inflight[i].op \in {"update", "delete"}
         /\ inflight[j].op \in {"update", "delete"}
         /\ inflight[i].phase = "sent"
         /\ inflight[j].phase = "sent")
            => inflight[i].id # inflight[j].id

\* C18: every failed request of the client, the first list fetch included,
\* ends with an alert shown to the user.
C18_FailureIsShown ==
    (step.act = "resolve" /\ (step.phase = "failed" \/ ~ResponseOk(step.status)))
        => step.alert

\* C19: when the concurrent creates with pairwise distinct ids have all been
\* answered, every one succeeded (201, 'Item added') and the table holds
\* exactly one row per request, with the values of that request.
C19_ConcurrentCreatesSucceed ==
    (\A w \in Workers : workers[w].pc = "done")
        => /\ \A w \in Workers :
                 workers[w].res = "Item added" /\ workers[w].status = 201
           /\ Len(products) = Cardinality(Workers)
           /\ \A w \in Workers :
                 \E i \in 1..Len(products) :
                    products[i] = NewProduct(variant, workers[w].data)

\* the product has a reorder level and is shown on both views
OnBothViews(i) ==
    /\ view.dashboard
    /\ view.inventory
    /\ clientProducts[i]["reorderLevel"] # None

InLowStockItems(p) == \E j \in 1..Len(view.lowStockItems) : view.lowStockItems[j] = p

\* C20: a product with quantity = reorderLevel is low-stock and a product with
\* quantity = reorderLevel + 1 is not, both in the Dashboard's lowStockItems
\* and on its ProductCard.
C20_LowStockBoundary ==
    \A i \in 1..Len(clientProducts) :
        LET p == clientProducts[i] IN
        OnBothViews(i)
            => /\ p["quantity"] = p["reorderLevel"]
                     => (InLowStockItems(p) /\ view.cards[i].isLowStock)
               /\ p["quantity"] = p["reorderLevel"] + 1
                     => (~InLowStockItems(p) /\ ~view.cards[i].isLowStock)
               /\ InLowStockItems(p) <=> view.cards[i].isLowStock

\* C20 witness: both views show a product at its reorder level and a product
\* one above it.
C20_BoundaryShown ==
    /\ Len(clientProducts) = 2
    /\ OnBothViews(1)
    /\ OnBothViews(2)
    /\ clientProducts[1]["quantity"] = clientProducts[1]["reorderLevel"]
    /\ clientProducts[2]["quantity"] = clientProducts[2]["reorderLevel"] + 1

\* days from the date at time `at` to the expiration date of the product
DaysAhead(at) == clientProducts[1]["expirationDate"] - (at \div DayTicks)

\* the classification a view made at time `at` follows the calendar
OnCalendar(at, soon) ==
    /\ DaysAhead(at) = Horizon => soon
    /\ DaysAhead(at) = Horizon + 1 => ~soon
    /\ DaysAhead(at) <= 0 => ~soon

\* C21: a product expiring exactly 90 days after the current date is
\* expiring-soon, one expiring 91 days after it is not, and one expiring
\* today or earlier is not, at whatever time of day the view renders.
C21_ExpiringSoonBoundary ==
    /\ expiry.dashboard
          => OnCalendar(expiry.dashboardAt, Len(expiry.expiringSoon) = 1)
    /\ expiry.card
          => OnCalendar(expiry.cardAt, expiry.isExpiringSoon)

\* the DELETE requests that have not resolved yet
OutstandingDeletes == {i \in 1..Len(inflight) : inflight[i].op = "delete"}

\* C22: when an asynchronous delete of X succeeds, the list becomes the list
\* as it stood when the response arrived, minus X.
C22_DeleteKeepsConcurrentChanges ==
    (/\ app \in {"fetchDelete", "deletingId"}
     /\ step.act = "resolve"
     /\ step.op = "delete"
     /\ ~step.alert)
        => clientProducts = FilterOut(step.prev, step.id)

\* C23: what was added locally before the initial list fetch resolved is
\* still in the list after the response has been handled.
C23_InitialFetchKeepsLocalChanges ==
    (app = "local" /\ step.act = "resolve" /\ step.op = "list" /\ history.early)
        => \A i \in 1..Len(step.prev) :
               \E j \in 1..Len(clientProducts) : clientProducts[j] = step.prev[i]

\* C24: in the guarded handler deletingId is set exactly while a DELETE is
\* outstanding, and names it; at most one DELETE is in flight; a delete
\* started meanwhile sends nothing; the guard is released when the request
\* resolves, however it ended.
C24_DeleteGuard ==
    app = "deletingId"
        => /\ (deletingId # None) <=> (OutstandingDeletes # {})
           /\ Cardinality(OutstandingDeletes) <= 1
           /\ \A i \in OutstandingDeletes : inflight[i].id = deletingId
           /\ (step.act = "resolve" /\ step.op = "delete") => deletingId = None

\* a second delete was started while one was outstanding
C24_GuardedClick ==
    /\ app = "deletingId"
    /\ step.act = "guarded"
    /\ deletingId # None
    /\ \E i \in OutstandingDeletes : inflight[i].phase = "answered"

DistinctIds(list) ==
    \A i, j \in 1..Len(list) : list[i]["id"] = list[j]["id"] => i = j

\* C25: after any client-side creates on top of the loaded data, the ids in
\* the product list are pairwise distinct, and so are those in the
\* purchase-order list and those in the damaged-report list.
C25_IdsPairwiseDistinct ==
    /\ DistinctIds(clientProducts)
    /\ DistinctIds(purchaseOrders)
    /\ DistinctIds(reports)

\* the list the last change was made to
EditedList ==
    CASE edit.list = "products" -> clientProducts
      [] edit.list = "purchaseOrders" -> purchaseOrders
      [] edit.list = "reports" -> reports
      [] OTHER -> <<>>

\* C26: a local update replaces exactly the entries whose id is the id of
\* the record it is given; the list keeps its length and order and every
\* other entry, and is unchanged when no entry has that id.
C26_UpdateFrame ==
    edit.act \in {"update", "received"}
        => /\ Len(EditedList) = Len(edit.prev)
           /\ \A i \in 1..Len(edit.prev) :
                 EditedList[i] = IF edit.prev[i]["id"] = edit.arg["id"]
                                 THEN edit.arg ELSE edit.prev[i]
           /\ (\A i \in 1..Len(edit.prev) : edit.prev[i]["id"] # edit.arg["id"])
                 => EditedList = edit.prev

\* an update changed one entry of a list of several
C26_OneOfSeveralUpdated ==
    /\ edit.act \in {"update", "received"}
    /\ \E i, j \in 1..Len(edit.prev) :
          /\ edit.prev[i]["id"] = edit.arg["id"]
          /\ edit.prev[i] # edit.arg
          /\ edit.prev[j]["id"] # edit.arg["id"]

\* the purchase orders that came from the create modal
CreatedPOs ==
    {i \in 1..Len(purchaseOrders) : purchaseOrders[i].id \notin IdsOf(initialPOs)}

\* C30: a purchase order created through the create modal is pending when
\* created and has at least one line item, and its totalAmount is the sum of
\* quantity * unitPrice over its items, also after edits in the edit modal
\* and after mark-as-received.
C30_CreatedOrderTotals ==
    /\ (edit.list = "purchaseOrders" /\ edit.act = "create")
          => purchaseOrders[1].status = "pending"
    /\ \A i \in CreatedPOs :
          /\ Len(purchaseOrders[i].items) >= 1
          /\ purchaseOrders[i].totalAmount = SumItems(purchaseOrders[i].items)

\* an order created with two priced items has been edited since
C30_CreatedOrderEdited ==
    \E i \in CreatedPOs :
        /\ Len(purchaseOrders[i].items) = 2
        /\ purchaseOrders[i].totalAmount > 1
        /\ purchaseOrders[i].status # "pending"
        /\ edit.list = "purchaseOrders"
        /\ edit.act = "update"

\* C27: the paginated get_items answers with a page >= 1 and a per_page
\* between 1 and 100, returns at most per_page items, total_pages is
\* total_items / per_page rounded up, has_next holds exactly when a row lies
\* beyond the page, and has_prev exactly when the page is above 1.
C27_PaginationMetadata ==
    query # <<>> /\ query.result # <<>>
        => LET items == query.result.items
               pg == query.result.pagination IN
           /\ pg.page >= 1
           /\ pg.per_page >= 1
           /\ pg.per_page <= PerPageCap
           /\ Len(items) <= pg.per_page
           /\ pg.total_items = Len(query.table)
           /\ pg.total_pages * pg.per_page >= pg.total_items
           /\ (pg.total_pages - 1) * pg.per_page < pg.total_items \/ pg.total_items = 0
           /\ pg.total_items = 0 => pg.total_pages = 0
           /\ pg.has_next <=> (pg.total_items > pg.page * pg.per_page)
           /\ pg.has_prev <=> (pg.page > 1)

\* a per_page above the cap was asked of a table with more rows than the cap
C27_CappedPage ==
    /\ query # <<>> /\ query.result # <<>>
    /\ query.per_page > PerPageCap
    /\ Len(query.result.items) = PerPageCap
    /\ query.result.pagination.has_next

\* C28: in the paginated container the displayed page is never above
\* total_pages while at least one product exists.
C28_PageWithinTotal ==
    (pager.pagination # <<>> /\ pager.pagination.total_items >= 1)
        => pager.currentPage <= pager.pagination.total_pages

IsPage(x) == x # Ellipsis

\* C29: for totalPages >= 1 and 1 <= currentPage <= totalPages the strip
\* holds 1, totalPages and currentPage, its numbers increase strictly, it is
\* 1..totalPages when totalPages <= 7, and an ellipsis stands only between
\* two numbers that are not consecutive.
C29_PageStrip ==
    strip # <<>> /\ strip.pages # <<>>
        => LET pages == strip.pages
               Numbers == {k \in 1..Len(pages) : IsPage(pages[k])} IN
           /\ \A n \in {1, strip.totalPages, strip.currentPage} :
                 \E k \in Numbers : pages[k] = n
           /\ \A k, l \in Numbers : k < l => pages[k] < pages[l]
           /\ strip.totalPages <= maxVisible => pages = Range(1, strip.totalPages)
           /\ \A k \in 1..Len(pages) :
                 ~IsPage(pages[k])
                    => /\ k > 1 /\ k < Len(pages)
                       /\ IsPage(pages[k - 1]) /\ IsPage(pages[k + 1])
                       /\ pages[k + 1] - pages[k - 1] > 1

\* a strip of more than 7 pages with an ellipsis on both sides
C29_TwoEllipses ==
    /\ strip # <<>> /\ strip.pages # <<>>
    /\ strip.totalPages > maxVisible
    /\ Cardinality({k \in 1..Len(strip.pages) : ~IsPage(strip.pages[k])}) = 2

====
